---- MODULE Spec2Model ----
(***************************************************************************)
(* Model of find_vtables (src/src/vtable.rs): the candidate scan over      *)
(* .rdata, the instruction validation pass with its one-instruction        *)
(* lookahead, and the cross-reference index context.xrefs.                 *)
(*                                                                         *)
(* TLC integers are 32 bits wide, so the 64-bit address space is scaled:   *)
(* an unsigned word has AddrBits bits and the signed "32-bit" immediate    *)
(* range has ImmBits bits.  Section bytes are real bytes (0..255) and the  *)
(* pointer widths are the real 4 and 8.                                    *)
(***************************************************************************)
EXTENDS Integers, Sequences, FiniteSets, TLC

VARIABLES
    text_section,       \* context.object.section_by_name(".text")
    rdata_section,      \* context.object.section_by_name(".rdata")
    pointer_size,       \* context.pointer_size
    insns,              \* context.insns
    xrefs,              \* context.xrefs
    pc,                 \* position inside find_vtables
    i,                  \* byte offset of the next window of the fold
    state,              \* the fold's State {last, all}
    vtable_candidates,  \* result of the fold
    vtables,            \* the BTreeSet of confirmed addresses
    it,                 \* 1-based position of the peekable iterator
    result,             \* the value returned by the call
    calls,              \* number of calls started on this context
    xrefs_entry,        \* context.xrefs as it was when the current call began
    prev_result         \* the value returned by the previous call

vars == <<text_section, rdata_section, pointer_size, insns, xrefs, pc, i,
          state, vtable_candidates, vtables, it, result, calls, xrefs_entry,
          prev_result>>

-----------------------------------------------------------------------------
(* Bounds *)

MaxWindows == 4
MaxTail == 3
MaxInsns == 3
MaxCalls == 2
AddrBits == 12
ImmBits == 10

U64Modulus == 2 ^ AddrBits

\* The signed immediate range the specification's idiom B speaks of; the
\* code has no such test.
I32_MAX == 2 ^ (ImmBits - 1) - 1
I32_MIN == 0 - 2 ^ (ImmBits - 1)

-----------------------------------------------------------------------------
(* Values *)

None == <<>>
Some(x) == <<x>>

Ok(v) == <<"Ok", v>>
Err(msg) == <<"Err", msg>>

AsU64(x) == x % U64Modulus

Reg(r) == [type |-> "Reg", reg |-> r]
Mem(b, d) == [type |-> "Mem", base |-> b, disp |-> d]
Imm(v) == [type |-> "Imm", imm |-> v]

Instruction(a, n, m, ops) == [address |-> a, len |-> n, mnemonic |-> m, operands |-> ops]

RECURSIVE ConvertFrom(_, _, _)
ConvertFrom(x, k, n) ==
    IF k > n THEN 0 ELSE x[k] + 256 * ConvertFrom(x, k + 1, n)

\* util::convert_pointer: the window as a native-endian (little-endian on
\* x86) unsigned integer.
ConvertPointer(x, ps) == ConvertFrom(x, 1, ps)

RECURSIVE SortedSeq(_)
SortedSeq(S) ==
    IF S = {} THEN <<>>
    ELSE LET m == CHOOSE x \in S : \A y \in S : x <= y
         IN <<m>> \o SortedSeq(S \ {m})

-----------------------------------------------------------------------------
(* Inputs: the binaries and instruction streams the calls are run on *)

RECURSIVE EncodeLE(_, _)
EncodeLE(v, n) == IF n = 0 THEN <<>> ELSE <<v % 256>> \o EncodeLE(v \div 256, n - 1)

RECURSIVE Flatten(_)
Flatten(ss) == IF ss = <<>> THEN <<>> ELSE Head(ss) \o Flatten(Tail(ss))

TextPresent == [present |-> TRUE, address |-> 272, size |-> 32]
TextAbsent == [present |-> FALSE, address |-> 0, size |-> 0]

\* .rdata is placed so that its first window is the last address inside the
\* scaled signed immediate range and later windows lie outside it.
RdataAddress == I32_MAX + 1 - 8

RdataPresent(bytes) == [present |-> TRUE, address |-> RdataAddress, data |-> bytes]
RdataAbsent == [present |-> FALSE, address |-> 0, data |-> <<>>]

\* Pointer values stored in .rdata: the first code address, an address
\* inside the code, the last address inside, one past the last.
PtrVals == {TextPresent.address, TextPresent.address + 1,
            TextPresent.address + TextPresent.size}

TailByte == [k \in 1..MaxTail |-> 17]

RdataBytes(ptrs, ps, tail) ==
    Flatten([k \in 1..Len(ptrs) |-> EncodeLE(ptrs[k], ps)]) \o SubSeq(TailByte, 1, tail)

Shapes == {"lea_t0", "lea_tn", "lea_rbx", "mov_mem_r1", "mov_mem_r2",
           "mov_reg_reg", "mov_imm_t0", "mov_imm_t1", "mov_imm_neg",
           "mov_reg_imm", "add_mem_r1"}

\* One decoded instruction at address a.  t0 and t1 are the first and third
\* window of .rdata, tn the second.
MkInsn(shape, a, ps) ==
    LET t0 == RdataAddress
        tn == RdataAddress + ps
        t1 == RdataAddress + 2 * ps
    IN CASE shape = "lea_t0" -> Instruction(a, 7, "LEA", <<Reg("RAX"), Mem("RIP", t0 - a - 7)>>)
         [] shape = "lea_tn" -> Instruction(a, 7, "LEA", <<Reg("RAX"), Mem("RIP", tn - a - 7)>>)
         [] shape = "lea_rbx" -> Instruction(a, 4, "LEA", <<Reg("RAX"), Mem("RBX", t0 - a - 4)>>)
         [] shape = "mov_mem_r1" -> Instruction(a, 3, "MOV", <<Mem("RCX", 0), Reg("RAX")>>)
         [] shape = "mov_mem_r2" -> Instruction(a, 3, "MOV", <<Mem("RCX", 0), Reg("RDX")>>)
         [] shape = "mov_reg_reg" -> Instruction(a, 3, "MOV", <<Reg("RCX"), Reg("RAX")>>)
         [] shape = "mov_imm_t0" -> Instruction(a, 7, "MOV", <<Mem("RCX", 0), Imm(t0)>>)
         [] shape = "mov_imm_t1" -> Instruction(a, 7, "MOV", <<Mem("RCX", 0), Imm(t1)>>)
         [] shape = "mov_imm_neg" -> Instruction(a, 7, "MOV", <<Mem("RCX", 0), Imm(0 - 1)>>)
         [] shape = "mov_reg_imm" -> Instruction(a, 5, "MOV", <<Reg("RAX"), Imm(t0)>>)
         [] shape = "add_mem_r1" -> Instruction(a, 3, "ADD", <<Mem("RCX", 0), Reg("RAX")>>)

RECURSIVE Layout(_, _, _)
Layout(shapes, a, ps) ==
    IF shapes = <<>> THEN <<>>
    ELSE LET ins == MkInsn(Head(shapes), a, ps)
         IN <<ins>> \o Layout(Tail(shapes), a + ins.len, ps)

SeqsUpTo(S, n) == UNION {[1..k -> S] : k \in 0..n}

\* Many data sections, one short instruction stream.
ScanInputs ==
    {[text |-> TextPresent,
      rdata |-> RdataPresent(RdataBytes(ptrs, ps, tail)),
      ps |-> ps,
      insns |-> Layout(<<"mov_imm_t0", "mov_imm_t1">>, TextPresent.address, ps)] :
        ptrs \in SeqsUpTo(PtrVals, MaxWindows), ps \in {4, 8}, tail \in {0, MaxTail}}

\* One data section with two closed runs, many instruction streams.
InsnInputs ==
    LET ptrs == <<TextPresent.address + 1, TextPresent.address,
                  TextPresent.address + 1, TextPresent.address + TextPresent.size>>
    IN {[text |-> TextPresent,
         rdata |-> RdataPresent(RdataBytes(ptrs, 8, 0)),
         ps |-> 8,
         insns |-> Layout(shapes, TextPresent.address, 8)] :
           shapes \in SeqsUpTo(Shapes, MaxInsns)}

\* Binaries lacking .text, .rdata or both.
MissingInputs ==
    LET ptrs == <<TextPresent.address + 1, TextPresent.address>>
    IN {[text |-> t, rdata |-> r, ps |-> 8,
         insns |-> Layout(<<"mov_imm_t0">>, TextPresent.address, 8)] :
           t \in {TextPresent, TextAbsent},
           r \in {RdataPresent(RdataBytes(ptrs, 8, 0)), RdataAbsent}}

Inputs == ScanInputs \cup InsnInputs \cup MissingInputs

-----------------------------------------------------------------------------
(* find_vtables *)

\* Mutant: only the .text lookup is checked.
MissingSection_TextOnly(ts, rs) ==
    IF ~ts.present THEN Some("No .text section") ELSE None

\* Lines 13-15: the two section lookups, in order.
MissingSection(ts, rs) ==
    IF ~ts.present THEN Some("No .text section")
    ELSE IF ~rs.present THEN Some("No .rdata section")
    ELSE None

\* Mutant: the lower bound is not strict.
InText_Inclusive(ptr, ts) == ts.address <= ptr /\ ptr < ts.address + ts.size

\* Line 36.
InText(ptr, ts) == ts.address < ptr /\ ptr < ts.address + ts.size

\* Lines 33-49: the fold's closure on the window at byte offset off.
FoldStep(st, off, x, ts, rs, ps) ==
    LET ptr == ConvertPointer(x, ps)
    IN IF InText(ptr, ts)
       THEN IF st.last = None
            THEN [st EXCEPT !.last = Some(off + rs.address)]
            ELSE st
       ELSE IF st.last # None
            THEN [last |-> None, all |-> st.all \cup {st.last[1]}]
            ELSE st

\* Mutant: a run still open at the end of the data is closed too.
FoldResult_FlushOpen(st) ==
    IF st.last # None THEN st.all \cup {st.last[1]} ELSE st.all

\* Line 51.
FoldResult(st) == st.all

\* Mutant: the new reference goes to the front of the list.
XrefsPush_Prepend(xr, k, a) ==
    LET x1 == IF k \in DOMAIN xr THEN xr ELSE (k :> <<>>) @@ xr
    IN [x1 EXCEPT ![k] = <<a>> \o @]

\* Mutant: a reference already in the list is not appended again.
XrefsPush_Dedup(xr, k, a) ==
    LET x1 == IF k \in DOMAIN xr THEN xr ELSE (k :> <<>>) @@ xr
    IN [x1 EXCEPT ![k] = IF \E j \in 1..Len(@) : @[j] = a THEN @ ELSE Append(@, a)]

\* Lines 70-73 and 88-91.
XrefsPush(xr, k, a) ==
    LET x1 == IF k \in DOMAIN xr THEN xr ELSE (k :> <<>>) @@ xr
    IN [x1 EXCEPT ![k] = Append(@, a)]

\* Mutant: the reference is recorded but the address is not added to vtables.
Confirm_NoVtableInsert(s, src_addr, address) ==
    [vtables |-> s.vtables,
     xrefs |-> XrefsPush(s.xrefs, src_addr, address)]

\* Lines 69-73 and 87-91.
Confirm(s, src_addr, address) ==
    [vtables |-> s.vtables \cup {src_addr},
     xrefs |-> XrefsPush(s.xrefs, src_addr, address)]

\* Mutant: the stored register is not compared with the loaded one.
is_mov_to_mem_any_reg(insn, reg) ==
    IF insn.mnemonic # "MOV" THEN FALSE
    ELSE /\ Len(insn.operands) = 2
         /\ insn.operands[1].type = "Mem"
         /\ insn.operands[2].type = "Reg"

\* Lines 100-112.
is_mov_from_reg_to_mem(insn, reg) ==
    IF insn.mnemonic # "MOV" THEN FALSE
    ELSE /\ Len(insn.operands) = 2
         /\ insn.operands[1].type = "Mem"
         /\ insn.operands[2].type = "Reg"
         /\ insn.operands[2].reg = reg

\* Lines 59-63: LEA reg, [rip + disp].
IsLeaRip(insn) ==
    /\ insn.mnemonic = "LEA"
    /\ Len(insn.operands) = 2
    /\ insn.operands[1].type = "Reg"
    /\ insn.operands[2].type = "Mem"
    /\ insn.operands[2].base = "RIP"

\* Line 64.
LeaSrcAddr(insn) == AsU64(insn.operands[2].disp + insn.address) + insn.len

\* Line 66, left operand of &&: the lookahead is evaluated only when it holds.
LeaPeeks(insn, cands) == IsLeaRip(insn) /\ LeaSrcAddr(insn) \in cands

\* Lines 59-77.
LeaBlock(s, insn, next, cands) ==
    IF LeaPeeks(insn, cands) /\ is_mov_from_reg_to_mem(next, insn.operands[1].reg)
    THEN Confirm(s, LeaSrcAddr(insn), insn.address)
    ELSE s

\* Mutant: any immediate stored to memory is taken for a vtable.
IdiomBMatch_AnyImm(insn, cands) ==
    /\ insn.mnemonic = "MOV"
    /\ Len(insn.operands) = 2
    /\ insn.operands[1].type = "Mem"
    /\ insn.operands[2].type = "Imm"

\* Mutant: only immediates of the signed 32-bit range are looked up.
IdiomBMatch_Signed32(insn, cands) ==
    /\ insn.mnemonic = "MOV"
    /\ Len(insn.operands) = 2
    /\ insn.operands[1].type = "Mem"
    /\ insn.operands[2].type = "Imm"
    /\ I32_MIN <= insn.operands[2].imm /\ insn.operands[2].imm <= I32_MAX
    /\ AsU64(insn.operands[2].imm) \in cands

\* Lines 79-84.
IdiomBMatch(insn, cands) ==
    /\ insn.mnemonic = "MOV"
    /\ Len(insn.operands) = 2
    /\ insn.operands[1].type = "Mem"
    /\ insn.operands[2].type = "Imm"
    /\ AsU64(insn.operands[2].imm) \in cands

\* Lines 79-94.
MovBlock(s, insn, cands) ==
    IF IdiomBMatch(insn, cands)
    THEN Confirm(s, AsU64(insn.operands[2].imm), insn.address)
    ELSE s

Locals == <<i, state, vtable_candidates, vtables, it>>
Context == <<text_section, rdata_section, pointer_size, insns>>

Init ==
    /\ \E inp \in Inputs :
        /\ text_section = inp.text
        /\ rdata_section = inp.rdata
        /\ pointer_size = inp.ps
        /\ insns = inp.insns
    /\ xrefs = <<>>
    /\ pc = "start"
    /\ i = 0
    /\ state = [last |-> None, all |-> {}]
    /\ vtable_candidates = {}
    /\ vtables = {}
    /\ it = 0
    /\ result = None
    /\ calls = 1
    /\ xrefs_entry = <<>>
    /\ prev_result = None

\* Lines 13-16, a section is missing: the ? operator returns the error.
EnterErr ==
    /\ pc = "start"
    /\ MissingSection(text_section, rdata_section) # None
    /\ result' = Err(MissingSection(text_section, rdata_section)[1])
    /\ pc' = "error"
    /\ UNCHANGED <<Context, xrefs, Locals, calls, xrefs_entry, prev_result>>

\* Lines 13-32, both sections present: the fold starts.
EnterOk ==
    /\ pc = "start"
    /\ MissingSection(text_section, rdata_section) = None
    /\ state' = [last |-> None, all |-> {}]
    /\ i' = 0
    /\ pc' = "scan"
    /\ UNCHANGED <<Context, xrefs, vtable_candidates, vtables, it, result,
                   calls, xrefs_entry, prev_result>>

\* Lines 24-49: windows(pointer_size).enumerate().step_by(pointer_size).
ScanStep ==
    /\ pc = "scan"
    /\ i + pointer_size <= Len(rdata_section.data)
    /\ state' = FoldStep(state, i, SubSeq(rdata_section.data, i + 1, i + pointer_size),
                         text_section, rdata_section, pointer_size)
    /\ i' = i + pointer_size
    /\ UNCHANGED <<Context, xrefs, pc, vtable_candidates, vtables, it, result,
                   calls, xrefs_entry, prev_result>>

\* Lines 50-56: the fold ends, the validation pass starts.
ScanDone ==
    /\ pc = "scan"
    /\ i + pointer_size > Len(rdata_section.data)
    /\ vtable_candidates' = FoldResult(state)
    /\ vtables' = {}
    /\ it' = 1
    /\ pc' = "validate"
    /\ UNCHANGED <<Context, xrefs, i, state, result, calls, xrefs_entry, prev_result>>

\* Line 66: it.peek().unwrap() on an exhausted iterator.
ValidatePanic ==
    /\ pc = "validate"
    /\ it = Len(insns)
    /\ LeaPeeks(insns[it], vtable_candidates)
    /\ pc' = "panic"
    /\ UNCHANGED <<Context, xrefs, Locals, result, calls, xrefs_entry, prev_result>>

\* Lines 57-95: one iteration of the while loop.
ValidateStep ==
    /\ pc = "validate"
    /\ it <= Len(insns)
    /\ ~(it = Len(insns) /\ LeaPeeks(insns[it], vtable_candidates))
    /\ LET insn == insns[it]
           next == IF it < Len(insns) THEN insns[it + 1] ELSE insn
           s0 == [vtables |-> vtables, xrefs |-> xrefs]
           s1 == LeaBlock(s0, insn, next, vtable_candidates)
           s2 == MovBlock(s1, insn, vtable_candidates)
       IN /\ vtables' = s2.vtables
          /\ xrefs' = s2.xrefs
    /\ it' = it + 1
    /\ UNCHANGED <<Context, pc, i, state, vtable_candidates, result, calls,
                   xrefs_entry, prev_result>>

\* Line 97.
Return ==
    /\ pc = "validate"
    /\ it > Len(insns)
    /\ result' = Ok(SortedSeq(vtables))
    /\ pc' = "done"
    /\ UNCHANGED <<Context, xrefs, Locals, calls, xrefs_entry, prev_result>>

\* The caller invokes find_vtables again on the same context.
CallAgain ==
    /\ pc \in {"done", "error"}
    /\ calls < MaxCalls
    /\ calls' = calls + 1
    /\ xrefs_entry' = xrefs
    /\ prev_result' = result
    /\ result' = None
    /\ i' = 0
    /\ state' = [last |-> None, all |-> {}]
    /\ vtable_candidates' = {}
    /\ vtables' = {}
    /\ it' = 0
    /\ pc' = "start"
    /\ UNCHANGED <<Context, xrefs>>

Next ==
    \/ EnterErr
    \/ EnterOk
    \/ ScanStep
    \/ ScanDone
    \/ ValidatePanic
    \/ ValidateStep
    \/ Return
    \/ CallAgain

Spec == Init /\ [][Next]_vars

-----------------------------------------------------------------------------
(* Properties *)

Returned == IF pc = "done" THEN result[2] ELSE <<>>
Elems(sq) == {sq[k] : k \in 1..Len(sq)}
Scanned == pc \in {"validate", "done", "panic"}
FirstCall == calls = 1
IsPrefix(p, q) == Len(p) <= Len(q) /\ SubSeq(q, 1, Len(p)) = p

\* C1: the list a successful call returns holds only members of the
\* candidate set computed in that call, and it is strictly ascending.
C1_SubsetSorted ==
    pc = "done" =>
        /\ result[1] = "Ok"
        /\ Elems(result[2]) \subseteq vtable_candidates
        /\ \A j, k \in 1..Len(result[2]) : j < k => result[2][j] < result[2][k]

C1_Witness ==
    /\ pc = "done"
    /\ Len(result[2]) >= 2
    /\ Elems(result[2]) # vtable_candidates \/ Len(insns) > 2

\* The windows of the data section, read from the bytes alone.
NumWindows == Len(rdata_section.data) \div pointer_size
WindowPtr(k) ==
    ConvertPointer(SubSeq(rdata_section.data, k * pointer_size + 1,
                          (k + 1) * pointer_size), pointer_size)
WindowInRange(k) ==
    /\ text_section.address < WindowPtr(k)
    /\ WindowPtr(k) < text_section.address + text_section.size
RefCandidates ==
    {rdata_section.address + k * pointer_size : k \in
        {k \in 0..(NumWindows - 1) :
            /\ WindowInRange(k)
            /\ (k = 0 \/ ~WindowInRange(k - 1))
            /\ \E j \in (k + 1)..(NumWindows - 1) : ~WindowInRange(j)}}

\* C9: the candidate set is exactly the set of starts of maximal runs of
\* in-range full windows (both bounds strict) that are followed by some
\* out-of-range window; bytes after the last full window are never read.
C9_CandidatesAreRunStarts ==
    Scanned =>
        /\ vtable_candidates = RefCandidates
        /\ i = NumWindows * pointer_size

C9_Witness ==
    /\ Scanned
    /\ Cardinality(vtable_candidates) = 2
    /\ Len(rdata_section.data) % pointer_size # 0
    /\ \E k \in 0..(NumWindows - 1) : WindowPtr(k) = text_section.address
    /\ \E k \in 0..(NumWindows - 1) : WindowPtr(k) = text_section.address + text_section.size

\* C7: a run still open when the data ends contributes no candidate: its
\* start is not in the candidate set, the vtable set or the index.
C7_OpenRunDiscarded ==
    (Scanned /\ state.last # None) =>
        /\ state.last[1] \notin vtable_candidates
        /\ state.last[1] \notin vtables
        /\ state.last[1] \notin DOMAIN xrefs
        /\ state.last[1] \notin Elems(Returned)

\* The open run starts at the address the first instruction stores.
C7_Witness ==
    /\ pc = "done"
    /\ state.last # None
    /\ \E k \in 1..Len(insns) :
        /\ insns[k].mnemonic = "MOV"
        /\ insns[k].operands[2].type = "Imm"
        /\ insns[k].operands[2].imm = state.last[1]

\* C4: a binary without .text or .rdata makes the call return an error; no
\* scan or validation step runs and the index stays as it was at entry.
C4_MissingSectionFails ==
    /\ (~text_section.present \/ ~rdata_section.present) => pc \in {"start", "error"}
    /\ pc = "error" =>
        /\ ~text_section.present \/ ~rdata_section.present
        /\ result[1] = "Err"
        /\ i = 0 /\ it = 0
        /\ state = [last |-> None, all |-> {}]
        /\ vtable_candidates = {} /\ vtables = {}
        /\ xrefs = xrefs_entry

C4_Witness ==
    /\ pc = "error"
    /\ text_section.present
    /\ ~rdata_section.present
    /\ result = Err("No .rdata section")

\* Idiom A at position k for address v, read from the stream alone: a LEA
\* (register r, [rip + d]) with d + address + length = v, v a candidate,
\* followed by a MOV (memory, register r).
SatisfiesA(k, v) ==
    LET ins == insns[k]
    IN /\ ins.mnemonic = "LEA"
       /\ Len(ins.operands) = 2
       /\ ins.operands[1].type = "Reg"
       /\ ins.operands[2].type = "Mem"
       /\ ins.operands[2].base = "RIP"
       /\ ins.operands[2].disp + ins.address + ins.len = v
       /\ v \in vtable_candidates
       /\ k < Len(insns)
       /\ insns[k + 1].mnemonic = "MOV"
       /\ Len(insns[k + 1].operands) = 2
       /\ insns[k + 1].operands[1].type = "Mem"
       /\ insns[k + 1].operands[2].type = "Reg"
       /\ insns[k + 1].operands[2].reg = ins.operands[1].reg

\* Idiom B at position k for address v: a MOV (memory, immediate) whose
\* immediate, taken as an unsigned word, is v, v a candidate.
SatisfiesB(k, v) ==
    LET ins == insns[k]
    IN /\ ins.mnemonic = "MOV"
       /\ Len(ins.operands) = 2
       /\ ins.operands[1].type = "Mem"
       /\ ins.operands[2].type = "Imm"
       /\ (ins.operands[2].imm + U64Modulus) % U64Modulus = v
       /\ v \in vtable_candidates

RECURSIVE RefsFrom(_, _, _)
RefsFrom(k, n, v) ==
    IF k > n THEN <<>>
    ELSE (IF SatisfiesA(k, v) \/ SatisfiesB(k, v) THEN <<insns[k].address>> ELSE <<>>)
         \o RefsFrom(k + 1, n, v)

C3_KeysAreVtables ==
    (Scanned /\ xrefs_entry = <<>>) =>
        /\ DOMAIN xrefs = vtables
        /\ \A v \in DOMAIN xrefs : xrefs[v] # <<>>
        /\ pc = "done" => DOMAIN xrefs = Elems(result[2])

\* Mid-pass: one vtable confirmed, a candidate not yet confirmed.
C3_Witness ==
    /\ pc = "validate"
    /\ xrefs_entry = <<>>
    /\ it <= Len(insns)
    /\ vtables # {}
    /\ vtables # vtable_candidates

\* C5: when the last instruction is a rip-relative LEA whose effective
\* address is a candidate, the call does not abort.
C5_LastLeaNoAbort ==
    (Scanned /\ insns # <<>> /\ LeaPeeks(insns[Len(insns)], vtable_candidates)) =>
        pc # "panic"

\* The addresses under which the index lists the instruction at position k.
Recorded(k) == {v \in DOMAIN xrefs : insns[k].address \in Elems(xrefs[v])}

\* C10: a rip-relative LEA at position k confirms e = d + address + length
\* exactly when e is a candidate and the next instruction is a MOV (memory,
\* same register); the address recorded is the LEA's; the instruction after
\* a LEA is still tested on its own; only a LEA with no next instruction
\* aborts the call.
C10_IdiomA ==
    /\ pc = "panic" => it = Len(insns)
    /\ (pc = "done" /\ FirstCall) =>
        \A k \in 1..Len(insns) :
            LET ins == insns[k]
                e == ins.operands[2].disp + ins.address + ins.len
            IN /\ ins.mnemonic = "LEA" =>
                    Recorded(k) = IF ins.operands[2].base = "RIP" /\ SatisfiesA(k, e)
                                  THEN {e} ELSE {}
               /\ (ins.mnemonic # "LEA" /\ k > 1 /\ insns[k - 1].mnemonic = "LEA") =>
                    Recorded(k) = {v \in vtable_candidates : SatisfiesB(k, v)}

\* A LEA/MOV pair confirms the first candidate under the LEA's address, and
\* the stream goes on to confirm the second one.
C10_Witness ==
    /\ pc = "done"
    /\ FirstCall
    /\ Len(insns) = 3
    /\ SatisfiesA(1, RdataAddress)
    /\ xrefs[RdataAddress] = <<insns[1].address>>
    /\ Recorded(2) = {}
    /\ Recorded(3) # {}

IsMovMemImm(ins) ==
    /\ ins.mnemonic = "MOV"
    /\ Len(ins.operands) = 2
    /\ ins.operands[1].type = "Mem"
    /\ ins.operands[2].type = "Imm"

InSigned32(v) == I32_MIN <= v /\ v <= I32_MAX

\* C6 as stated: a MOV [mem], imm whose immediate lies outside the signed
\* 32-bit range never confirms a vtable nor appends a cross-reference.
C6_OutOfRangeNeverMatches ==
    \A k \in 1..Len(insns) :
        (IsMovMemImm(insns[k]) /\ ~InSigned32(insns[k].operands[2].imm)) =>
            Recorded(k) = {}

\* C6 amended: a MOV (memory, immediate) is a match exactly when its
\* immediate, taken as an unsigned word, is a candidate, whatever its
\* magnitude and whatever instruction follows; a MOV of another operand
\* shape is never an idiom B match.
C6_IdiomBByMembership ==
    (pc = "done" /\ FirstCall) =>
        \A k \in 1..Len(insns) :
            LET ins == insns[k]
                u == (ins.operands[2].imm + U64Modulus) % U64Modulus
            IN ins.mnemonic = "MOV" =>
                 Recorded(k) = IF IsMovMemImm(ins) /\ u \in vtable_candidates
                               THEN {u} ELSE {}

\* An in-range and an out-of-range immediate both confirm, the latter as
\* the last instruction of the stream.
C6_Witness ==
    /\ pc = "done"
    /\ FirstCall
    /\ \E k \in 1..Len(insns) :
        /\ IsMovMemImm(insns[k]) /\ InSigned32(insns[k].operands[2].imm)
        /\ Recorded(k) # {}
    /\ IsMovMemImm(insns[Len(insns)])
    /\ ~InSigned32(insns[Len(insns)].operands[2].imm)
    /\ Recorded(Len(insns)) # {}

\* C8: the index only grows: every key present at entry stays, its list at
\* entry is a prefix of its list now; a second call on the same context
\* returns the same list and leaves every list doubled.
C8_AppendOnly ==
    /\ \A k \in DOMAIN xrefs_entry :
        k \in DOMAIN xrefs /\ IsPrefix(xrefs_entry[k], xrefs[k])
    /\ (pc = "done" /\ calls = 2) =>
        /\ result = prev_result
        /\ DOMAIN xrefs = DOMAIN xrefs_entry
        /\ \A k \in DOMAIN xrefs : xrefs[k] = xrefs_entry[k] \o xrefs_entry[k]

\* The second call has returned and a list of two references was doubled.
C8_Witness ==
    /\ pc = "done"
    /\ calls = 2
    /\ \E k \in DOMAIN xrefs :
        /\ Len(xrefs[k]) = 4
        /\ xrefs[k][1] # xrefs[k][2]

====
